---- MODULE Spec2Model ----
(***************************************************************************)
(* Iridium: the Omnom diff engine (lib/utils/Omnom.js) that turns two      *)
(* snapshots of a document into a MongoDB change set, and its builder.     *)
(*                                                                         *)
(* JavaScript values are tagged records, so that values of different       *)
(* kinds can be compared:                                                  *)
(*   undefined [t |-> "undef"]        null   [t |-> "null"]                *)
(*   number    [t |-> "num", n |-> 1] string [t |-> "str", s |-> "x"]      *)
(*   array     [t |-> "arr", a |-> <<..>>]                                 *)
(*   plain object [t |-> "obj", o |-> [key |-> value]]                     *)
(*   ObjectID  [t |-> "oid", id |-> 1]                                     *)
(* A change set is a function from the operator names present to a         *)
(* function from paths to operands; a path is a string.                    *)
(***************************************************************************)
EXTENDS Integers, Sequences, FiniteSets, TLC

VARIABLES original, modified, atomicNumbers, aliased, changes, pc, calls,
          history, statics, instance, stored, saves

vars == <<original, modified, atomicNumbers, aliased, changes, pc, calls,
          history, statics, instance, stored, saves>>

\* the variables of an instance, its collection and its save() calls
saveVars == <<instance, stored, saves>>

\* the variables of the diff engine, the builder and the decorators
engineVars == <<original, modified, atomicNumbers, aliased, changes, calls,
                history, statics>>

(***************************************************************************)
(* Bounds of the model.                                                    *)
(***************************************************************************)
\* numbers in the documents are 0..MaxNum
MaxNum == 2
\* arrays of scalars hold at most MaxLen elements
MaxLen == 3
\* a builder is called at most MaxCalls times
MaxCalls == 3

(***************************************************************************)
(* Values.                                                                 *)
(***************************************************************************)
Undefined == [t |-> "undef"]
Null == [t |-> "null"]
Num(n) == [t |-> "num", n |-> n]
Str(s) == [t |-> "str", s |-> s]
Arr(a) == [t |-> "arr", a |-> a]
Obj(o) == [t |-> "obj", o |-> o]
ObjectID(id) == [t |-> "oid", id |-> id]

\* {} : an object without keys
EmptyMap == << >>

\* f with f[k] = v (assignment to a property)
Put(f, k, v) == [x \in (DOMAIN f) \cup {k} |-> IF x = k THEN v ELSE f[x]]

\* f without k (delete f[k])
Del(f, k) == [x \in (DOMAIN f) \ {k} |-> f[x]]

\* The order in which the own keys of an object are enumerated.  Objects are
\* functions here, so the enumeration follows one fixed order of the keys.
KeyOrder == <<"a", "b", "c", "$each">>

\* Object.keys(o) / the keys _.each visits, for an object map o
OwnKeys(o) == SelectSeq(KeyOrder, LAMBDA k : k \in DOMAIN o)

\* v[key] : undefined when v has no such property
Get(v, key) == IF v.t = "obj" /\ key \in DOMAIN v.o THEN v.o[key] ELSE Undefined

\* a[i] for a zero-based index i of the array elements a
At(a, i) == IF i >= 0 /\ i < Len(a) THEN a[i + 1] ELSE Undefined

isPlainObject(v) == v.t = "obj"
isArray(v) == v.t = "arr"
isNumber(v) == v.t = "num"
isObjectID(v) == v.t = "oid"
isNullish(v) == v.t \in {"undef", "null"}

\* the truthiness of a value in a condition
Truthy(v) ==
    CASE v.t = "undef" -> FALSE
      [] v.t = "null" -> FALSE
      [] v.t = "num" -> v.n # 0
      [] v.t = "str" -> v.s # ""
      [] OTHER -> TRUE

\* n == s for a number n and a string s: ToNumber(s) is n.  The strings of
\* the model that denote a number are "" (0) and the decimal numerals.
NumEqStr(n, s) == (s = "" /\ n = 0) \/ ToString(n) = s

RECURSIVE ToStr(_)
\* String(v), the ToPrimitive conversion that == applies to an object
ToStr(v) ==
    CASE v.t = "undef" -> "undefined"
      [] v.t = "null" -> "null"
      [] v.t = "num" -> ToString(v.n)
      [] v.t = "str" -> v.s
      [] v.t = "obj" -> "[object Object]"
      [] v.t = "oid" -> "65f0c0ffee" \o ToString(v.id)
      [] v.t = "arr" ->
           LET RECURSIVE Join(_)
               Join(i) ==
                   IF i > Len(v.a) THEN ""
                   ELSE (IF i > 1 THEN "," ELSE "")
                        \o (IF isNullish(v.a[i]) THEN "" ELSE ToStr(v.a[i]))
                        \o Join(i + 1)
           IN Join(1)

\* o1 == o2 (loose equality).  Two objects (arrays, plain objects,
\* ObjectIDs) are equal when they are the same object: when the two
\* documents are one and the same object (aliased) every comparison is
\* between a node and itself, otherwise the trees share no node.
LooseEq(o1, o2) ==
    LET prim(v) == v.t \in {"num", "str"}
        obj(v) == v.t \in {"arr", "obj", "oid"}
        primEq(p, q) ==
            CASE p.t = "num" /\ q.t = "num" -> p.n = q.n
              [] p.t = "str" /\ q.t = "str" -> p.s = q.s
              [] p.t = "num" /\ q.t = "str" -> NumEqStr(p.n, q.s)
              [] p.t = "str" /\ q.t = "num" -> NumEqStr(q.n, p.s)
    IN CASE isNullish(o1) \/ isNullish(o2) -> isNullish(o1) /\ isNullish(o2)
         [] prim(o1) /\ prim(o2) -> primEq(o1, o2)
         [] obj(o1) /\ obj(o2) -> aliased /\ o1 = o2
         [] obj(o1) /\ prim(o2) -> primEq(Str(ToStr(o1)), o2)
         [] prim(o1) /\ obj(o2) -> primEq(o1, Str(ToStr(o2)))

\* original !== modified for a null or undefined original
StrictNeq(o1, o2) == o1 # o2

\* _.isEqual(o1, o2) : deep equality of the values
isEqual(o1, o2) == o1 = o2

(***************************************************************************)
(* Omnom.prototype.almostEqual.  The score is the rational n/d, or NaN     *)
(* when the division is 0/0.  With at most three keys per object the       *)
(* floating-point result compares with 0 and 1 as the rational does.       *)
(***************************************************************************)
Score(n, d) == [nan |-> FALSE, n |-> n, d |-> d]
NaN == [nan |-> TRUE, n |-> 0, d |-> 1]

\* if (score)
ScoreTruthy(s) == ~s.nan /\ s.n # 0
\* score < 1
ScoreLessThanOne(s) == ~s.nan /\ s.n < s.d
\* score === 0
ScoreIsZero(s) == ~s.nan /\ s.n = 0

RECURSIVE almostEqual(_, _)
almostEqual(o1, o2) ==
    IF ~isPlainObject(o1) \/ ~isPlainObject(o2)
    THEN IF LooseEq(o1, o2) THEN Score(1, 1) ELSE Score(0, 1)
    ELSE LET o1k == DOMAIN o1.o
             o2k == DOMAIN o2.o
             commonKeys == o1k \cap o2k
             common == Cardinality(commonKeys)
             totalKeys == Cardinality(o1k) + Cardinality(o2k) - common
             keysDifference == totalKeys - common
             requiredChanges ==
                 Cardinality({k \in commonKeys :
                     ScoreLessThanOne(almostEqual(o1.o[k], o2.o[k]))})
         IN IF common = 0 THEN NaN
            ELSE Score(totalKeys * common - keysDifference * common
                         - requiredChanges * totalKeys,
                       totalKeys * common)

(***************************************************************************)
(* The change set builder: Omnom.prototype.set .. resolve.  Each takes the *)
(* change set ch (this.changes) and returns it as the call leaves it.      *)
(***************************************************************************)
\* the property key a path is used as: the path of the root is undefined
PathKey(path) == IF path = "" THEN "undefined" ELSE path

\* if (!this.changes[op]) this.changes[op] = {}
EnsureOp(ch, op) == IF op \in DOMAIN ch THEN ch ELSE Put(ch, op, EmptyMap)

\* this.changes[op][path] = value
Assign(ch, op, path, value) ==
    Put(ch, op, Put(ch[op], PathKey(path), value))

\* this.changes[op][path], undefined when there is none
Entry(ch, op, path) ==
    IF op \in DOMAIN ch /\ PathKey(path) \in DOMAIN ch[op]
    THEN ch[op][PathKey(path)] ELSE Undefined

set(ch, path, value) == Assign(EnsureOp(ch, "$set"), "$set", path, value)

unset(ch, path) == Assign(EnsureOp(ch, "$unset"), "$unset", path, Num(1))

inc(ch, path, value) == Assign(EnsureOp(ch, "$inc"), "$inc", path, value)

push(ch, path, value) ==
    LET c1 == EnsureOp(ch, "$push")
        cur == Entry(c1, "$push", path)
    IN IF Truthy(cur)
       THEN IF Truthy(Get(cur, "$each"))
            THEN Assign(c1, "$push", path,
                     Obj(Put(cur.o, "$each",
                             Arr(Append(Get(cur, "$each").a, value)))))
            ELSE Assign(c1, "$push", path,
                     Obj([k \in {"$each"} |-> Arr(<<cur, value>>)]))
       ELSE Assign(c1, "$push", path, value)

pullAll(ch, path, values) ==
    Assign(EnsureOp(ch, "$pullAll"), "$pullAll", path, Arr(values))

\* pull without the delete of the coalesced single value
pullKeepsSingle(ch, path, value) ==
    LET c1 == EnsureOp(ch, "$pull")
    IN IF Truthy(Entry(c1, "$pullAll", path))
       THEN Assign(c1, "$pullAll", path,
                Arr(Append(Entry(c1, "$pullAll", path).a, value)))
       ELSE IF Truthy(Entry(c1, "$pull", path))
       THEN pullAll(c1, path, <<Entry(c1, "$pull", path), value>>)
       ELSE Assign(c1, "$pull", path, value)

pull(ch, path, value) ==
    LET c1 == EnsureOp(ch, "$pull")
    IN IF Truthy(Entry(c1, "$pullAll", path))
       THEN Assign(c1, "$pullAll", path,
                Arr(Append(Entry(c1, "$pullAll", path).a, value)))
       ELSE IF Truthy(Entry(c1, "$pull", path))
       THEN LET c2 == pullAll(c1, path, <<Entry(c1, "$pull", path), value>>)
                c3 == Put(c2, "$pull", Del(c2["$pull"], PathKey(path)))
            IN IF DOMAIN c3["$pull"] = {} THEN Del(c3, "$pull") ELSE c3
       ELSE Assign(c1, "$pull", path, value)

\* resolve(changePath, key): the non-empty segments joined by "."
resolve(changePath, key) ==
    IF changePath = "" THEN key
    ELSE IF key = "" THEN changePath
    ELSE changePath \o "." \o key

(***************************************************************************)
(* Omnom.prototype.onObject and onArray.  ch is this.changes before the    *)
(* call and the result is this.changes after it; atomic is                 *)
(* this.options.atomicNumbers.                                             *)
(***************************************************************************)
RECURSIVE onObject(_, _, _, _, _)
RECURSIVE onArray(_, _, _, _, _)
RECURSIVE eachModified(_, _, _, _, _, _)
RECURSIVE eachOriginal(_, _, _, _, _)
RECURSIVE eachOriginalNullOnly(_, _, _, _, _)
RECURSIVE shrinkWalk(_, _, _, _, _)
RECURSIVE shrinkWalkNoTrailing(_, _, _, _, _)
RECURSIVE eachPull(_, _, _, _)
RECURSIVE eachPush(_, _, _, _)
RECURSIVE eachSet(_, _, _, _, _)
RECURSIVE eachSetNext(_, _, _, _, _)
RECURSIVE eachPartial(_, _, _, _, _, _, _)
RECURSIVE eachPartialAtArray(_, _, _, _, _, _, _)

\* _.each(modified, ...) over the keys still to visit
eachModified(ch, atomic, orig, modif, changePath, keys) ==
    IF keys = <<>> THEN ch
    ELSE LET key == Head(keys)
             value == modif.o[key]
             c1 == IF isArray(value) /\ isArray(Get(orig, key))
                   THEN onArray(ch, atomic, Get(orig, key), value,
                                resolve(changePath, key))
                   ELSE onObject(ch, atomic, Get(orig, key), value,
                                 resolve(changePath, key))
         IN eachModified(c1, atomic, orig, modif, changePath, Tail(keys))

\* the unset loop that tests modified[key] === null alone
eachOriginalNullOnly(ch, orig, modif, changePath, keys) ==
    IF keys = <<>> THEN ch
    ELSE LET key == Head(keys)
             c1 == IF Get(modif, key).t = "null"
                   THEN unset(ch, resolve(changePath, key))
                   ELSE ch
         IN eachOriginalNullOnly(c1, orig, modif, changePath, Tail(keys))

\* _.each(original, ...) : unset the removed properties
eachOriginal(ch, orig, modif, changePath, keys) ==
    IF keys = <<>> THEN ch
    ELSE LET key == Head(keys)
             c1 == IF isNullish(Get(modif, key))
                   THEN unset(ch, resolve(changePath, key))
                   ELSE ch
         IN eachOriginal(c1, orig, modif, changePath, Tail(keys))

\* the number branch that ignores atomicNumbers
onNumbersAlwaysSet(ch, atomic, orig, modif, changePath) ==
    set(ch, changePath, modif)

\* the branch of onObject for two numbers that differ
onNumbers(ch, atomic, orig, modif, changePath) ==
    IF atomic THEN inc(ch, changePath, Num(modif.n - orig.n))
    ELSE set(ch, changePath, modif)

onObject(ch, atomic, orig, modif, changePath) ==
    IF isNullish(orig)
    THEN IF StrictNeq(orig, modif) THEN set(ch, changePath, modif) ELSE ch
    ELSE IF isNumber(orig) /\ isNumber(modif) /\ orig.n # modif.n
    THEN onNumbers(ch, atomic, orig, modif, changePath)
    ELSE IF isArray(orig) /\ isArray(modif)
    THEN onArray(ch, atomic, orig, modif, changePath)
    ELSE IF isObjectID(orig) /\ isObjectID(modif)
    THEN IF orig.id # modif.id THEN set(ch, changePath, modif) ELSE ch
    ELSE IF ~isPlainObject(orig) \/ ~isPlainObject(modif)
    THEN IF ~isEqual(orig, modif) THEN set(ch, changePath, modif) ELSE ch
    ELSE eachOriginal(
             eachModified(ch, atomic, orig, modif, changePath, OwnKeys(modif.o)),
             orig, modif, changePath, OwnKeys(orig.o))

\* the walk that stops at the end of modified and leaves the rest of original
shrinkWalkNoTrailing(orig, modif, i, j, pulls) ==
    IF i < Len(orig.a) /\ j < Len(modif.a)
    THEN IF ScoreTruthy(almostEqual(At(orig.a, i), At(modif.a, j)))
         THEN shrinkWalkNoTrailing(orig, modif, i + 1, j + 1, pulls)
         ELSE shrinkWalkNoTrailing(orig, modif, i + 1, j,
                                   Append(pulls, At(orig.a, i)))
    ELSE [j |-> j, pulls |-> pulls]

\* the walk of the shrink strategy from (i, j), zero-based: [j, pulls] at its end
shrinkWalk(orig, modif, i, j, pulls) ==
    IF i < Len(orig.a) /\ j < Len(modif.a)
    THEN IF ScoreTruthy(almostEqual(At(orig.a, i), At(modif.a, j)))
         THEN shrinkWalk(orig, modif, i + 1, j + 1, pulls)
         ELSE shrinkWalk(orig, modif, i + 1, j, Append(pulls, At(orig.a, i)))
    ELSE IF i < Len(orig.a)
    THEN shrinkWalk(orig, modif, i + 1, j, Append(pulls, At(orig.a, i)))
    ELSE [j |-> j, pulls |-> pulls]

\* pulls.forEach(pull => this.pull(changePath, pull)) from the i-th pull on
eachPull(ch, changePath, pulls, i) ==
    IF i > Len(pulls) THEN ch
    ELSE eachPull(pull(ch, changePath, pulls[i]), changePath, pulls, i + 1)

\* for (i = original.length; i < modified.length; i++) this.push(..), zero-based i
eachPush(ch, changePath, modif, i) ==
    IF i >= Len(modif.a) THEN ch
    ELSE eachPush(push(ch, changePath, At(modif.a, i)), changePath, modif, i + 1)

\* the set loop that reads modified one place after the index it writes
eachSetNext(ch, changePath, modif, sets, i) ==
    IF i > Len(sets) THEN ch
    ELSE eachSetNext(set(ch, resolve(changePath, ToString(sets[i])),
                         At(modif.a, sets[i] + 1)),
                     changePath, modif, sets, i + 1)

\* for (i = 0; i < sets.length; i++) this.set(path.i, modified[sets[i]])
eachSet(ch, changePath, modif, sets, i) ==
    IF i > Len(sets) THEN ch
    ELSE eachSet(set(ch, resolve(changePath, ToString(sets[i])),
                     At(modif.a, sets[i])),
                 changePath, modif, sets, i + 1)

\* the partials loop that diffs every element at the path of the array
eachPartialAtArray(ch, atomic, orig, modif, changePath, partials, i) ==
    IF i > Len(partials) THEN ch
    ELSE eachPartialAtArray(onObject(ch, atomic, At(orig.a, partials[i]),
                                     At(modif.a, partials[i]), changePath),
                            atomic, orig, modif, changePath, partials, i + 1)

\* for (i = 0; i < partials.length; i++) this.onObject(..)
eachPartial(ch, atomic, orig, modif, changePath, partials, i) ==
    IF i > Len(partials) THEN ch
    ELSE eachPartial(onObject(ch, atomic, At(orig.a, partials[i]),
                              At(modif.a, partials[i]),
                              resolve(changePath, ToString(partials[i]))),
                     atomic, orig, modif, changePath, partials, i + 1)

\* whether the grow strategy applies: every shared index scores 1
canPush(orig, modif) ==
    \A i \in 0..(Len(orig.a) - 1) :
        ~ScoreLessThanOne(almostEqual(At(orig.a, i), At(modif.a, i)))

\* the indices (zero-based, ascending) of modified that score exactly 0
setsOf(orig, modif) ==
    SelectSeq([i \in 1..Len(modif.a) |-> i - 1],
              LAMBDA i : ScoreIsZero(almostEqual(At(orig.a, i), At(modif.a, i))))

\* the indices of modified that score below 1 but not 0
partialsOf(orig, modif) ==
    SelectSeq([i \in 1..Len(modif.a) |-> i - 1],
              LAMBDA i : LET equality == almostEqual(At(orig.a, i), At(modif.a, i))
                         IN ~ScoreIsZero(equality) /\ ScoreLessThanOne(equality))

\* the positional strategy with the threshold at the whole length
positionalNoHalf(ch, atomic, orig, modif, changePath) ==
    LET sets == setsOf(orig, modif)
        partials == partialsOf(orig, modif)
    IN IF Len(sets) > Len(modif.a)
       THEN set(ch, changePath, modif)
       ELSE eachPartial(eachSet(ch, changePath, modif, sets, 1),
                        atomic, orig, modif, changePath, partials, 1)

\* the positional strategy that goes on to the loops after the whole set
positionalNoReturn(ch, atomic, orig, modif, changePath) ==
    LET sets == setsOf(orig, modif)
        partials == partialsOf(orig, modif)
        c1 == IF 2 * Len(sets) > Len(modif.a)
              THEN set(ch, changePath, modif) ELSE ch
    IN eachPartial(eachSet(c1, changePath, modif, sets, 1),
                   atomic, orig, modif, changePath, partials, 1)

\* the positional strategy of onArray (from "var sets = []" on)
positional(ch, atomic, orig, modif, changePath) ==
    LET sets == setsOf(orig, modif)
        partials == partialsOf(orig, modif)
    IN IF 2 * Len(sets) > Len(modif.a)
       THEN set(ch, changePath, modif)
       ELSE eachPartial(eachSet(ch, changePath, modif, sets, 1),
                        atomic, orig, modif, changePath, partials, 1)

onArray(ch, atomic, orig, modif, changePath) ==
    IF Len(orig.a) > Len(modif.a)
    THEN LET w == shrinkWalk(orig, modif, 0, 0, <<>>)
         IN IF w.j = Len(modif.a)
            THEN IF Len(w.pulls) = 1
                 THEN pull(ch, changePath, w.pulls[1])
                 ELSE eachPull(ch, changePath, w.pulls, 1)
            ELSE set(ch, changePath, modif)
    ELSE IF Len(orig.a) < Len(modif.a) /\ canPush(orig, modif)
    THEN eachPush(ch, changePath, modif, Len(orig.a))
    ELSE positional(ch, atomic, orig, modif, changePath)

\* Omnom.diff(original, modified, options): a new builder, diff, its changes
diff(orig, modif, atomic) == onObject(EmptyMap, atomic, orig, modif, "")

(***************************************************************************)
(* The inputs.  A document is a plain object at its root; the two          *)
(* documents of a call are drawn from the same family.                     *)
(***************************************************************************)
\* the objects with keys among K and values in V
RecordsOver(K, V) == {Obj(f) : f \in UNION {[S -> V] : S \in SUBSET K}}

\* the arrays of at most n elements of V
ArraysUpTo(V, n) == {Arr(q) : q \in UNION {[1..k -> V] : k \in 0..n}}

Numbers == {Num(n) : n \in 0..MaxNum}

\* documents of scalar and ObjectID fields
FlatDocs ==
    RecordsOver({"a", "b"},
                Numbers \cup {Null, Str("1"), Str("x"), ObjectID(1), ObjectID(2)})

\* documents with records nested two levels deep
NestedDocs ==
    LET leaves == {Null, Num(0), Num(1), Obj([a |-> Num(1)]), Obj([a |-> Num(2)])}
    IN {Obj([a |-> r]) : r \in RecordsOver({"a", "b"}, leaves)}

\* documents with one array of numbers
NumberArrayDocs ==
    {Obj([a |-> r]) : r \in ArraysUpTo({Num(0), Num(1), Num(2)}, MaxLen)}

\* documents with one array of at most two scalars, arrays and records
MixedArrayDocs ==
    LET elems == {Num(1), Str("1"), Null, Arr(<<Num(1)>>), Obj(EmptyMap),
                  Obj([a |-> Num(1)]), Obj([b |-> Num(1)]),
                  Obj([a |-> Num(1), b |-> Num(1)]),
                  Obj([a |-> Num(1), b |-> Num(2)])}
    IN {Obj([a |-> Arr(<<>>)])}
       \cup {Obj([a |-> Arr(<<x>>)]) : x \in elems}
       \cup {Obj([a |-> Arr(<<x, y>>)]) : x \in elems, y \in elems}

\* documents with one array of at most two ObjectIDs
ObjectIDArrayDocs ==
    {Obj([a |-> r]) : r \in ArraysUpTo({ObjectID(1), ObjectID(2)}, 2)}

Families ==
    {FlatDocs, NestedDocs, NumberArrayDocs, MixedArrayDocs, ObjectIDArrayDocs}

\* the paths and values the builder is called with
BuilderPaths == {"a", "b"}
BuilderValues == {Num(0), Num(1)}
BuilderLists == {<<>>, <<Num(1)>>}

(***************************************************************************)
(* The class decorators Index and Validate, and the static lists of the    *)
(* classes they write.  statics maps a class to its static properties; a   *)
(* class that extends Instance starts with the static properties of        *)
(* Instance, a class with no base has none.                                *)
(***************************************************************************)
\* skmatc.create(schema => schema === forType, validate)
create(forType, validate) == [handles |-> forType, validate |-> validate]

\* static validators = [skmatc.create(schema => schema === ObjectID, ..)]
\* static indexes = []
InstanceStatics ==
    [k \in {"validators", "indexes"} |->
        IF k = "validators"
        THEN <<create("ObjectID", "ObjectID validation")>>
        ELSE <<>>]

\* class Test extends Instance; class Plain
ClassStatics ==
    [c \in {"Instance", "Test", "Plain"} |->
        IF c = "Plain" THEN EmptyMap ELSE InstanceStatics]

\* target[prop] || []
ListOf(st, target, prop) ==
    IF prop \in DOMAIN st[target] THEN st[target][prop] ELSE <<>>

\* the decorator that keeps the options as they were given
IndexAsGiven(st, target, spec, options) ==
    [st EXCEPT ![target] =
        Put(st[target], "indexes",
            ListOf(st, target, "indexes")
                \o <<[spec |-> spec, options |-> options]>>)]

\* target.indexes = (target.indexes || []).concat({spec, options: options || {}})
Index(st, target, spec, options) ==
    [st EXCEPT ![target] =
        Put(st[target], "indexes",
            ListOf(st, target, "indexes")
                \o <<[spec |-> spec,
                      options |-> IF Truthy(options) THEN options
                                  ELSE Obj(EmptyMap)]>>)]

\* target.validators = (target.validators || []).concat(skmatc.create(..))
Validate(st, target, forType, validate) ==
    [st EXCEPT ![target] =
        Put(st[target], "validators",
            ListOf(st, target, "validators") \o <<create(forType, validate)>>)]

\* the classes that are decorated and what the decorators are given
Targets == {"Test", "Plain"}
IndexSpecs == {Obj([a |-> Num(1)]), Obj([b |-> Num(1)])}
IndexOptions == {Undefined, Obj([b |-> Num(1)])}
SchemaTypes == {"version", "String"}
Checks == {"semver"}

(***************************************************************************)
(* An instance and its save() calls.  instance holds _original,            *)
(* _modified, _isNew and _isPartial; stored is the document of the         *)
(* collection with the _id of the instance, Null when there is none; saves *)
(* holds, for each call of save(), where its promise chain stands and the  *)
(* variables of the call.                                                  *)
(***************************************************************************)
\* the calls of save() on the instance
SaveCalls == {1, 2}

\* new Instance(model, document, isNew, isPartial)
Instance(document, isNew, isPartial) ==
    [original |-> document, modified |-> document,
     isNew |-> isNew, isPartial |-> isPartial]

\* a call that has not been made: callback = null, changes = null
IdleSave ==
    [pc |-> "idle", explicit |-> FALSE, hasChanges |-> FALSE,
     changes |-> EmptyMap, document |-> Null, changed |-> FALSE,
     latest |-> Null, error |-> "", callbacks |-> 0, hooks |-> 0,
     inserts |-> 0, updates |-> 0, finds |-> 0]

NoInstance == Instance(Obj(EmptyMap), TRUE, FALSE)
NoSaves == [c \in SaveCalls |-> IdleSave]

(***************************************************************************)
(* The state machine.  pc = "start": Omnom.diff(original, modified,        *)
(* {atomicNumbers}) is about to be called; "done": changes is what it      *)
(* returned; "builder": changes is the change set of a new Omnom() on      *)
(* which set, unset, inc, push, pull and pullAll are called;               *)
(* "decorators": Index and Validate are applied to the classes.  history   *)
(* is the list of the calls made so far.                                   *)
(***************************************************************************)
InitDiff ==
    /\ pc = "start"
    /\ \E F \in Families : original \in F /\ modified \in F
    /\ atomicNumbers \in BOOLEAN
    /\ aliased \in BOOLEAN
    /\ aliased => original = modified
    /\ changes = EmptyMap
    /\ calls = 0
    /\ history = <<>>
    /\ statics = ClassStatics
    /\ instance = NoInstance
    /\ stored = Null
    /\ saves = NoSaves

InitBuilder ==
    /\ pc = "builder"
    /\ original = Obj(EmptyMap)
    /\ modified = Obj(EmptyMap)
    /\ atomicNumbers = FALSE
    /\ aliased = FALSE
    /\ changes = EmptyMap
    /\ calls = 0
    /\ history = <<>>
    /\ statics = ClassStatics
    /\ instance = NoInstance
    /\ stored = Null
    /\ saves = NoSaves

\* the classes are defined and no decorator has been applied yet
InitDecorators ==
    /\ pc = "decorators"
    /\ original = Obj(EmptyMap)
    /\ modified = Obj(EmptyMap)
    /\ atomicNumbers = FALSE
    /\ aliased = FALSE
    /\ changes = EmptyMap
    /\ calls = 0
    /\ history = <<>>
    /\ statics = ClassStatics
    /\ instance = NoInstance
    /\ stored = Null
    /\ saves = NoSaves

Diff ==
    /\ pc = "start"
    /\ changes' = diff(original, modified, atomicNumbers)
    /\ pc' = "done"
    /\ UNCHANGED <<original, modified, atomicNumbers, aliased, calls,
                   history, statics, saveVars>>

\* one call on the builder, recorded as call, that leaves this.changes as next
BuilderCall(next, call) ==
    /\ pc = "builder"
    /\ calls < MaxCalls
    /\ changes' = next
    /\ calls' = calls + 1
    /\ history' = Append(history, call)
    /\ UNCHANGED <<original, modified, atomicNumbers, aliased, pc, statics,
                   saveVars>>

Set ==
    \E p \in BuilderPaths :
        BuilderCall(set(changes, p, Num(1)),
                    [op |-> "set", path |-> p, value |-> Num(1)])

Unset ==
    \E p \in BuilderPaths :
        BuilderCall(unset(changes, p),
                    [op |-> "unset", path |-> p, value |-> Undefined])

Inc ==
    \E p \in BuilderPaths :
        BuilderCall(inc(changes, p, Num(1)),
                    [op |-> "inc", path |-> p, value |-> Num(1)])

Push ==
    \E p \in BuilderPaths, v \in BuilderValues :
        BuilderCall(push(changes, p, v),
                    [op |-> "push", path |-> p, value |-> v])

Pull ==
    \E p \in BuilderPaths, v \in BuilderValues :
        BuilderCall(pull(changes, p, v),
                    [op |-> "pull", path |-> p, value |-> v])

PullAll ==
    \E p \in BuilderPaths, l \in BuilderLists :
        BuilderCall(pullAll(changes, p, l),
                    [op |-> "pullAll", path |-> p, value |-> Arr(l)])

\* one decorator applied to the class target, leaving the statics as next
Decorate(next, call) ==
    /\ pc = "decorators"
    /\ calls < MaxCalls
    /\ statics' = next
    /\ calls' = calls + 1
    /\ history' = Append(history, call)
    /\ UNCHANGED <<original, modified, atomicNumbers, aliased, changes, pc,
                   saveVars>>

\* @Index(spec, options) on the class target
ApplyIndex ==
    \E target \in Targets, spec \in IndexSpecs, options \in IndexOptions :
        Decorate(Index(statics, target, spec, options),
                 [op |-> "Index", target |-> target, spec |-> spec,
                  options |-> options])

\* @Validate(forType, validate) on the class target
ApplyValidate ==
    \E target \in Targets, forType \in SchemaTypes, validate \in Checks :
        Decorate(Validate(statics, target, forType, validate),
                 [op |-> "Validate", target |-> target, forType |-> forType,
                  validate |-> validate])

(***************************************************************************)
(* The canonical semantics of the update operators, to state what a        *)
(* change set does to a document.  A path that cannot be followed (it      *)
(* runs through a scalar) makes the update fail: Failed.                   *)
(***************************************************************************)
Failed == [t |-> "failed"]

RECURSIVE Segments(_)
\* the segments of a dot-delimited path
Segments(path) ==
    LET dots == {i \in 1..Len(path) : SubSeq(path, i, i) = "."}
    IN IF dots = {} THEN <<path>>
       ELSE LET d == CHOOSE i \in dots : \A j \in dots : i <= j
            IN <<SubSeq(path, 1, d - 1)>>
               \o Segments(SubSeq(path, d + 1, Len(path)))

\* the array index a segment denotes, as a set: {i} or {}
IndexOf(seg) == {i \in 0..(MaxLen + 1) : ToString(i) = seg}

\* the elements of the array elements a that are not in the set gone
Without(a, gone) == SelectSeq(a, LAMBDA e : e \notin gone)

\* the elements of an array operand
Elements(v) == {v.a[i] : i \in DOMAIN v.a}

\* the values a push operand appends, in order
Pushed(v) == IF Truthy(Get(v, "$each")) THEN Get(v, "$each").a ELSE <<v>>

\* what the operator op with operand v makes of the value old at its path;
\* a missing value is Undefined, and a result of Undefined removes the field
Operate(op, v, old) ==
    CASE op = "$set" -> v
      [] op = "$unset" -> Undefined
      [] op = "$inc" ->
           (CASE old.t = "undef" -> v
              [] old.t = "num" -> Num(old.n + v.n)
              [] OTHER -> Failed)
      [] op = "$push" ->
           (CASE old.t = "undef" -> Arr(Pushed(v))
              [] old.t = "arr" -> Arr(old.a \o Pushed(v))
              [] OTHER -> Failed)
      [] op = "$pull" ->
           (CASE old.t = "undef" -> old
              [] old.t = "arr" -> Arr(Without(old.a, {v}))
              [] OTHER -> Failed)
      [] op = "$pullAll" ->
           (CASE old.t = "undef" -> old
              [] old.t = "arr" -> Arr(Without(old.a, Elements(v)))
              [] OTHER -> Failed)

RECURSIVE Update(_, _, _, _)
\* node with the operator op, operand v, applied at the path segs
Update(node, segs, op, v) ==
    IF segs = <<>> THEN Operate(op, v, node)
    ELSE LET seg == Head(segs)
             rest == Tail(segs)
         IN CASE node.t = "failed" -> Failed
              [] node.t = "undef" ->
                   LET sub == Update(Undefined, rest, op, v)
                   IN IF sub.t \in {"undef", "failed"} THEN sub
                      ELSE Obj([k \in {seg} |-> sub])
              [] node.t = "obj" ->
                   LET sub == Update(Get(node, seg), rest, op, v)
                   IN CASE sub.t = "failed" -> Failed
                        [] sub.t = "undef" -> Obj(Del(node.o, seg))
                        [] OTHER -> Obj(Put(node.o, seg, sub))
              [] node.t = "arr" /\ IndexOf(seg) # {} ->
                   LET i == CHOOSE i \in IndexOf(seg) : TRUE
                       sub == Update(At(node.a, i), rest, op, v)
                       len == IF Len(node.a) > i THEN Len(node.a) ELSE i + 1
                   IN CASE sub.t = "failed" -> Failed
                        [] sub.t = "undef" /\ i >= Len(node.a) -> node
                        [] OTHER ->
                             Arr([j \in 1..len |->
                                    IF j = i + 1
                                    THEN (IF sub.t = "undef" THEN Null ELSE sub)
                                    ELSE IF j <= Len(node.a)
                                    THEN node.a[j] ELSE Null])
              [] OTHER -> Failed

\* the entries of the change set ch, as a set of <<operator, path>>
Entries(ch) == UNION {{<<op, p>> : p \in DOMAIN ch[op]} : op \in DOMAIN ch}

\* one entry applied to a document
ApplyEntry(doc, ch, e) == Update(doc, Segments(e[2]), e[1], ch[e[1]][e[2]])

RECURSIVE ApplyAll(_, _, _)
\* the entries es of ch applied to doc, one after the other
ApplyAll(doc, ch, es) ==
    IF es = {} THEN doc
    ELSE LET e == CHOOSE x \in es : TRUE
         IN ApplyAll(ApplyEntry(doc, ch, e), ch, es \ {e})

\* the document after the update ch: sets first, then unsets, increments,
\* pushes and pulls
Apply(doc, ch) ==
    LET of(op) == {e \in Entries(ch) : e[1] = op}
        d1 == ApplyAll(doc, ch, of("$set"))
        d2 == ApplyAll(d1, ch, of("$unset"))
        d3 == ApplyAll(d2, ch, of("$inc"))
        d4 == ApplyAll(d3, ch, of("$push"))
        d5 == ApplyAll(d4, ch, of("$pull"))
    IN ApplyAll(d5, ch, of("$pullAll"))

(***************************************************************************)
(* Instance.prototype.save.  Every callback of the promise chain is one    *)
(* step of the call; an operation on the collection is issued in one step  *)
(* and answered in a later one, so that the steps of two calls interleave. *)
(* pc = "save": save() is called on the instance.  The position of a call: *)
(* "prepare" (the first callback is due), "saving", "write", "inserting",  *)
(* "updating" (the collection has not answered yet), "fetch", "finding",   *)
(* "receive", then "finishing" or "failing" (the chain is settled and      *)
(* nodeify is due), then "resolved" or "rejected".                         *)
(***************************************************************************)
\* this._model.helpers.validate(document) has not failed; the schema of the
\* model is {a: [Number]}
validate(document) ==
    /\ isArray(Get(document, "a"))
    /\ \A i \in DOMAIN Get(document, "a").a : isNumber(Get(document, "a").a[i])

\* the first callback without the validation of the document
prepareUnvalidated(inst, sv) ==
    IF sv.explicit
    THEN [sv EXCEPT !.pc = "saving", !.hasChanges = DOMAIN sv.changes # {}]
    ELSE LET ch == diff(inst.original, inst.modified, FALSE)
         IN [sv EXCEPT !.pc = "saving", !.changes = ch,
                       !.hasChanges = DOMAIN ch # {}]

\* the first callback of the chain: validate, diff the clones, and give null
\* for changes without keys.  A failed validation rejects through
\* Bluebird.reject(validation.error).nodeify(callback), which calls back.
prepare(inst, sv) ==
    IF sv.explicit
    THEN [sv EXCEPT !.pc = "saving", !.hasChanges = DOMAIN sv.changes # {}]
    ELSE IF ~validate(inst.modified)
    THEN [sv EXCEPT !.pc = "failing", !.error = "validation",
                    !.callbacks = @ + 1]
    ELSE LET ch == diff(inst.original, inst.modified, FALSE)
         IN [sv EXCEPT !.pc = "saving", !.changes = ch,
                       !.hasChanges = DOMAIN ch # {}]

\* the last callback that leaves _original alone when nothing was found
receivedKeepsOriginal(inst, latest) ==
    IF ~Truthy(latest)
    THEN [inst EXCEPT !.isNew = TRUE]
    ELSE [inst EXCEPT !.isPartial = FALSE, !.isNew = FALSE,
                      !.modified = latest, !.original = latest]

\* the last callback of the chain: if (!latest) {..} else documentReceived(..)
received(inst, latest) ==
    IF ~Truthy(latest)
    THEN [inst EXCEPT !.isNew = TRUE, !.original = inst.modified]
    ELSE [inst EXCEPT !.isPartial = FALSE, !.isNew = FALSE,
                      !.modified = latest, !.original = latest]

\* the documents of the instance and the changes save() is given
OriginalDocs == {Obj([a |-> Arr(<<Num(1)>>)])}
ModifiedDocs ==
    {Obj([a |-> Arr(<<Num(1)>>)]), Obj([a |-> Arr(<<Num(1), Num(2)>>)]),
     Obj([a |-> Str("x")])}
ExplicitChanges == {EmptyMap, [o \in {"$set"} |-> [q \in {"b"} |-> Num(1)]]}

\* an instance of a document of the collection, or a new one, with changes
InitSave ==
    /\ pc = "save"
    /\ original = Obj(EmptyMap)
    /\ modified = Obj(EmptyMap)
    /\ atomicNumbers = FALSE
    /\ aliased = FALSE
    /\ changes = EmptyMap
    /\ calls = 0
    /\ history = <<>>
    /\ statics = ClassStatics
    /\ \E o \in OriginalDocs, m \in ModifiedDocs, isNew, isPartial \in BOOLEAN :
           /\ instance = [Instance(o, isNew, isPartial) EXCEPT !.modified = m]
           /\ stored \in IF isNew THEN {Null} ELSE {o, Null}
    /\ saves = NoSaves

Init == InitDiff \/ InitBuilder \/ InitDecorators \/ InitSave

\* one step of the call c, from the position from, that leaves the variables
\* of the call as next
SaveStep(c, from, next) ==
    /\ pc = "save"
    /\ saves[c].pc = from
    /\ saves' = [saves EXCEPT ![c] = next]
    /\ UNCHANGED <<pc, engineVars>>

\* save(callback) or save(changes, callback) is called
StartSave(c) ==
    \E explicit \in BOOLEAN, ch \in ExplicitChanges :
        /\ explicit \/ ch = EmptyMap
        /\ SaveStep(c, "idle",
                    [IdleSave EXCEPT !.pc = "prepare", !.explicit = explicit,
                                     !.changes = ch])
        /\ UNCHANGED <<instance, stored>>

Prepare(c) ==
    /\ SaveStep(c, "prepare", prepare(instance, saves[c]))
    /\ UNCHANGED <<instance, stored>>

\* the second callback: savingDocument calls the saving hook
Saving(c) ==
    /\ SaveStep(c, "saving",
                IF ~saves[c].hasChanges /\ ~instance.isNew
                THEN [saves[c] EXCEPT !.pc = "write"]
                ELSE [saves[c] EXCEPT !.pc = "write", !.hooks = @ + 1])
    /\ UNCHANGED <<instance, stored>>

\* the third callback: insertOne(this._modified) or updateOne(conditions, changes)
Write(c) ==
    /\ SaveStep(c, "write",
                IF ~saves[c].hasChanges /\ ~instance.isNew
                THEN [saves[c] EXCEPT !.pc = "fetch", !.changed = FALSE]
                ELSE IF instance.isNew
                THEN [saves[c] EXCEPT !.pc = "inserting", !.inserts = @ + 1,
                                      !.document = instance.modified]
                ELSE [saves[c] EXCEPT !.pc = "updating", !.updates = @ + 1])
    /\ UNCHANGED <<instance, stored>>

\* the collection has inserted the document: resolve(!!doc)
InsertDone(c) ==
    /\ stored = Null
    /\ SaveStep(c, "inserting",
                [saves[c] EXCEPT !.pc = "fetch", !.changed = TRUE])
    /\ stored' = saves[c].document
    /\ UNCHANGED instance

\* the collection has applied the update to the document, if there is one
UpdateDone(c) ==
    LET result == IF stored = Null THEN Null
                  ELSE Apply(stored, saves[c].changes)
    IN /\ result # Failed
       /\ SaveStep(c, "updating",
                   [saves[c] EXCEPT !.pc = "fetch", !.changed = TRUE])
       /\ stored' = result
       /\ UNCHANGED instance

\* the fourth callback: if (!changed) return this._modified, else findOne
Fetch(c) ==
    /\ SaveStep(c, "fetch",
                IF ~saves[c].changed
                THEN [saves[c] EXCEPT !.pc = "receive",
                                      !.latest = instance.modified]
                ELSE [saves[c] EXCEPT !.pc = "finding", !.finds = @ + 1])
    /\ UNCHANGED <<instance, stored>>

\* the collection has answered findOne: resolve(latest)
FindDone(c) ==
    /\ SaveStep(c, "finding",
                [saves[c] EXCEPT !.pc = "receive", !.latest = stored])
    /\ UNCHANGED <<instance, stored>>

\* the collection has answered with an error: reject(err)
DatabaseError(c) ==
    /\ \E from \in {"inserting", "updating", "finding"} :
           SaveStep(c, from,
                    [saves[c] EXCEPT !.pc = "failing", !.error = "database"])
    /\ UNCHANGED <<instance, stored>>

Receive(c) ==
    /\ SaveStep(c, "receive", [saves[c] EXCEPT !.pc = "finishing"])
    /\ instance' = received(instance, saves[c].latest)
    /\ UNCHANGED stored

\* .nodeify(callback) at the end of the chain
Finish(c) ==
    /\ \E from \in {"finishing", "failing"} :
           SaveStep(c, from,
                    [saves[c] EXCEPT
                        !.pc = IF from = "finishing" THEN "resolved"
                               ELSE "rejected",
                        !.callbacks = @ + 1])
    /\ UNCHANGED <<instance, stored>>

Save ==
    \E c \in SaveCalls :
        \/ StartSave(c) \/ Prepare(c) \/ Saving(c) \/ Write(c)
        \/ InsertDone(c) \/ UpdateDone(c) \/ Fetch(c) \/ FindDone(c)
        \/ DatabaseError(c) \/ Receive(c) \/ Finish(c)

Next ==
    \/ Diff
    \/ Set \/ Unset \/ Inc \/ Push \/ Pull \/ PullAll
    \/ ApplyIndex \/ ApplyValidate
    \/ Save

Spec == Init /\ [][Next]_vars

(***************************************************************************)
(* Reading documents and change sets, to state the properties.             *)
(***************************************************************************)
RECURSIVE ValueAt(_, _)
\* the value of doc at the path segs, Undefined when there is none
ValueAt(doc, segs) ==
    IF segs = <<>> THEN doc
    ELSE CASE doc.t = "obj" -> ValueAt(Get(doc, Head(segs)), Tail(segs))
           [] doc.t = "arr" /\ IndexOf(Head(segs)) # {} ->
                ValueAt(At(doc.a, CHOOSE i \in IndexOf(Head(segs)) : TRUE),
                        Tail(segs))
           [] OTHER -> Undefined

\* whether the last segment of segs is a key of the record of doc it leads to
HasField(doc, segs) ==
    /\ segs # <<>>
    /\ LET parent == ValueAt(doc, SubSeq(segs, 1, Len(segs) - 1))
       IN parent.t = "obj" /\ segs[Len(segs)] \in DOMAIN parent.o

\* the paths of the operator op in the change set ch
PathsOf(ch, op) == IF op \in DOMAIN ch THEN DOMAIN ch[op] ELSE {}

\* the entries of ch at the field path or below it
EntriesUnder(ch, path) ==
    {e \in Entries(ch) :
        \/ e[2] = path
        \/ /\ Len(e[2]) > Len(path)
           /\ SubSeq(e[2], 1, Len(path) + 1) = path \o "."}

\* the operators of ch that have no entry
EmptyOperators(ch) == {op \in DOMAIN ch : DOMAIN ch[op] = {}}

\* the change set with the single entry op[path] = v
Single(op, path, v) == [o \in {op} |-> [q \in {path} |-> v]]

\* a string, number or null
isScalar(v) == v.t \in {"num", "str", "null"}

RECURSIVE LeafPaths(_)
\* the paths of doc, as segments, that lead to a value that is neither array
\* nor record, through records and arrays
LeafPaths(doc) ==
    CASE doc.t = "obj" ->
           UNION {{<<k>> \o q : q \in LeafPaths(doc.o[k])} : k \in DOMAIN doc.o}
      [] doc.t = "arr" ->
           UNION {{<<ToString(i - 1)>> \o q : q \in LeafPaths(doc.a[i])} :
                     i \in DOMAIN doc.a}
      [] OTHER -> {<<>>}

RECURSIVE RecordLeafPaths(_)
\* the leaf paths of doc that lead through records only
RecordLeafPaths(doc) ==
    CASE doc.t = "obj" ->
           UNION {{<<k>> \o q : q \in RecordLeafPaths(doc.o[k])} : k \in DOMAIN doc.o}
      [] doc.t = "arr" -> {}
      [] OTHER -> {<<>>}

RECURSIVE JoinPath(_)
\* the dot-delimited path of the segments segs
JoinPath(segs) ==
    IF Len(segs) = 1 THEN segs[1] ELSE segs[1] \o "." \o JoinPath(Tail(segs))

\* the keys that hold an array in both documents
ArrayFields == {k \in DOMAIN original.o \cap DOMAIN modified.o :
                   isArray(original.o[k]) /\ isArray(modified.o[k])}

\* what a changed number at the paths paths must have produced
NumbersReported(paths) ==
    \A q \in paths :
        LET o == ValueAt(original, q)
            m == ValueAt(modified, q)
        IN (isNumber(o) /\ isNumber(m) /\ o # m) =>
              IF atomicNumbers
              THEN /\ Entry(changes, "$inc", JoinPath(q)) = Num(m.n - o.n)
                   /\ JoinPath(q) \notin PathsOf(changes, "$set")
              ELSE /\ Entry(changes, "$set", JoinPath(q)) = m
                   /\ "$inc" \notin DOMAIN changes

\* the single entry set(k, modified[k]) is all the change set has for field k
RewrittenWhole(k) ==
    /\ EntriesUnder(changes, k) = {<<"$set", k>>}
    /\ changes["$set"][k] = modified.o[k]

(***************************************************************************)
(* C1.  Round trip: the change set diff returns, applied to original       *)
(* under the canonical semantics of the operators, gives a document        *)
(* deeply equal to modified.                                               *)
(***************************************************************************)
RoundTrip == pc = "done" => Apply(original, changes) = modified

(***************************************************************************)
(* C2.  Identity: diff(x, x) returns a change set without operator keys.   *)
(***************************************************************************)
Identity == (pc = "done" /\ original = modified) => changes = EmptyMap

(***************************************************************************)
(* C3.  A key present in both documents at a record path never has both    *)
(* a set and an unset entry at its path.                                   *)
(***************************************************************************)
NoSetWithUnset ==
    pc = "done" =>
        \A p \in PathsOf(changes, "$set") \cap PathsOf(changes, "$unset") :
            ~(HasField(original, Segments(p)) /\ HasField(modified, Segments(p)))

(***************************************************************************)
(* C4.  Every operator key present in a change set, returned by diff or    *)
(* left by any sequence of builder calls, maps to a non-empty mapping.     *)
(***************************************************************************)
OperatorsNonEmpty == EmptyOperators(changes) = {}

(***************************************************************************)
(* C5.  In a change set returned by diff no path is a key of both pull     *)
(* and pullAll.                                                            *)
(***************************************************************************)
PullDisjointFromPullAll ==
    pc = "done" => PathsOf(changes, "$pull") \cap PathsOf(changes, "$pullAll") = {}

\* diff has coalesced several pulls of one array into a pullAll entry
PullsCoalesced ==
    /\ pc = "done"
    /\ \E p \in PathsOf(changes, "$pullAll") : Len(changes["$pullAll"][p].a) >= 2

(***************************************************************************)
(* C6 (as claimed).  Every number leaf that differs between the documents  *)
(* is reported at its path: as inc of the difference and not as set when   *)
(* atomicNumbers, else as set of the new value, with no inc at all.        *)
(***************************************************************************)
NumberLeavesReported ==
    pc = "done" => NumbersReported(LeafPaths(original) \cap LeafPaths(modified))

(***************************************************************************)
(* C6 (amended).  The same for the number leaves reached from the root     *)
(* through records only; and without atomicNumbers no inc is produced.     *)
(***************************************************************************)
RecordNumberLeavesReported ==
    pc = "done" =>
        /\ NumbersReported(RecordLeafPaths(original) \cap RecordLeafPaths(modified))
        /\ ~atomicNumbers => "$inc" \notin DOMAIN changes

\* diff with atomicNumbers has met a changed number two records deep
NestedNumberIncremented ==
    /\ pc = "done"
    /\ atomicNumbers
    /\ \E q \in RecordLeafPaths(original) \cap RecordLeafPaths(modified) :
          /\ Len(q) >= 2
          /\ isNumber(ValueAt(original, q)) /\ isNumber(ValueAt(modified, q))
          /\ ValueAt(original, q) # ValueAt(modified, q)

(***************************************************************************)
(* C7.  An array field whose modified value is the original followed by    *)
(* k >= 1 scalars gets a push as its only entry: the new element when      *)
(* k = 1, one append-list of the k elements in order when k >= 2.          *)
(***************************************************************************)
PureAppend ==
    pc = "done" =>
        \A k \in ArrayFields :
            LET o == original.o[k].a
                m == modified.o[k].a
                extra == SubSeq(m, Len(o) + 1, Len(m))
            IN (/\ Len(m) > Len(o)
                /\ SubSeq(m, 1, Len(o)) = o
                /\ \A i \in DOMAIN extra : isScalar(extra[i]))
               => /\ EntriesUnder(changes, k) = {<<"$push", k>>}
                  /\ changes["$push"][k] =
                        IF Len(extra) = 1 THEN extra[1]
                        ELSE Obj([e \in {"$each"} |-> Arr(extra)])

(***************************************************************************)
(* C8.  An array field of pairwise distinct scalars whose modified value   *)
(* is the original with k >= 1 elements deleted gets as its only entry a   *)
(* pull of the removed value (k = 1) or a pullAll of the k removed values  *)
(* in original order (k >= 2), and no other operator key appears.          *)
(***************************************************************************)
PureRemoval ==
    pc = "done" =>
        \A k \in ArrayFields :
            LET o == original.o[k].a
                m == modified.o[k].a
                kept == {m[i] : i \in DOMAIN m}
                removed == SelectSeq(o, LAMBDA e : e \notin kept)
            IN (/\ \A i \in DOMAIN o : isScalar(o[i])
                /\ \A i, j \in DOMAIN o : i # j => o[i] # o[j]
                /\ Len(m) < Len(o)
                /\ m = SelectSeq(o, LAMBDA e : e \in kept))
               => /\ EmptyOperators(changes) = {}
                  /\ IF Len(removed) = 1
                     THEN /\ EntriesUnder(changes, k) = {<<"$pull", k>>}
                          /\ changes["$pull"][k] = removed[1]
                     ELSE /\ EntriesUnder(changes, k) = {<<"$pullAll", k>>}
                          /\ changes["$pullAll"][k] = Arr(removed)

(***************************************************************************)
(* C9 (as claimed).  An array field in which more than half of the index   *)
(* positions of modified hold an element that differs from the element of  *)
(* original at that index gets exactly one entry, set(path, modified).     *)
(***************************************************************************)
MajorityRewrite ==
    pc = "done" =>
        \A k \in ArrayFields :
            LET o == original.o[k].a
                m == modified.o[k].a
                differing == {i \in DOMAIN m \cap DOMAIN o : o[i] # m[i]}
            IN 2 * Cardinality(differing) > Len(m) => RewrittenWhole(k)

\* the index positions of modified.k that score 0 against original.k
ZeroPositions(k) ==
    {i \in 0..(Len(modified.o[k].a) - 1) :
        ScoreIsZero(almostEqual(At(original.o[k].a, i), At(modified.o[k].a, i)))}

\* field k reaches the positional strategy: original is not longer, and when
\* it is shorter some shared index scores below 1
ReachesPositional(k) ==
    LET o == original.o[k].a
        m == modified.o[k].a
    IN /\ Len(o) <= Len(m)
       /\ Len(o) < Len(m) =>
             \E i \in 0..(Len(o) - 1) :
                 ScoreLessThanOne(almostEqual(At(o, i), At(m, i)))

(***************************************************************************)
(* C9 (amended).  An array field that reaches the positional strategy and  *)
(* in which more than half of the index positions of modified score        *)
(* similarity 0 gets exactly one entry, set(path, modified).               *)
(***************************************************************************)
MajorityRewritePositional ==
    pc = "done" =>
        \A k \in ArrayFields :
            (/\ ReachesPositional(k)
             /\ 2 * Cardinality(ZeroPositions(k)) > Len(modified.o[k].a))
            => RewrittenWhole(k)

\* diff has met an array of three of which two positions score 0
MajorityOfThreeRewritten ==
    /\ pc = "done"
    /\ \E k \in ArrayFields :
          /\ ReachesPositional(k)
          /\ Len(modified.o[k].a) = 3
          /\ Cardinality(ZeroPositions(k)) = 2

(***************************************************************************)
(* C10.  Documents that differ in exactly one scalar leaf, reached through *)
(* records by the keys k1..kn, old and new value not null, without         *)
(* atomicNumbers: diff returns exactly {set: {"k1.k2...kn": new value}}.   *)
(***************************************************************************)
SingleLeafChange ==
    (pc = "done" /\ ~atomicNumbers) =>
        \A q \in RecordLeafPaths(original) \cap RecordLeafPaths(modified) :
            LET o == ValueAt(original, q)
                m == ValueAt(modified, q)
            IN (/\ q # <<>>
                /\ o.t \in {"num", "str"} /\ m.t \in {"num", "str"}
                /\ o # m
                /\ Update(original, q, "$set", m) = modified)
               => changes = Single("$set", JoinPath(q), m)

RECURSIVE FieldPaths(_)
\* the paths of doc, as segments, that lead through records to a field
FieldPaths(doc) ==
    IF doc.t = "obj"
    THEN UNION {{<<k>>} \cup {<<k>> \o q : q \in FieldPaths(doc.o[k])} :
                   k \in DOMAIN doc.o}
    ELSE {}

\* the fields of original with a value that is not null whose record is in
\* modified too, without the field
RemovedFields ==
    {q \in FieldPaths(original) :
        /\ ~isNullish(ValueAt(original, q))
        /\ LET p == SubSeq(q, 1, Len(q) - 1)
           IN /\ p = <<>> \/ p \in FieldPaths(modified)
              /\ isPlainObject(ValueAt(modified, p))
              /\ ~HasField(modified, q)}

(***************************************************************************)
(* C11.  A key that holds a non-null value in original and is absent from  *)
(* modified at a record path gets unset(path.key) with the operand 1, and  *)
(* no other entry at or below path.key.                                    *)
(***************************************************************************)
RemovedFieldUnset ==
    pc = "done" =>
        \A q \in RemovedFields :
            /\ EntriesUnder(changes, JoinPath(q)) = {<<"$unset", JoinPath(q)>>}
            /\ changes["$unset"][JoinPath(q)] = Num(1)

\* diff has met a removed field below the root
NestedFieldRemoved ==
    /\ pc = "done"
    /\ \E q \in RemovedFields : Len(q) >= 2 /\ isPlainObject(ValueAt(original, q))

\* the pairs of array elements of the two documents, one from each
ElementPairs ==
    UNION {{<<original.o[k].a[i], modified.o[k].a[j]>> :
               i \in DOMAIN original.o[k].a, j \in DOMAIN modified.o[k].a} :
           k \in ArrayFields}

CommonKeys(x, y) == DOMAIN x.o \cap DOMAIN y.o

\* both are not records, or both are records with a key in common
Comparable(x, y) ==
    \/ ~isPlainObject(x) /\ ~isPlainObject(y)
    \/ isPlainObject(x) /\ isPlainObject(y) /\ CommonKeys(x, y) # {}

\* both are records and no key is in both
KeyDisjoint(x, y) ==
    isPlainObject(x) /\ isPlainObject(y) /\ CommonKeys(x, y) = {}

ScoreInUnitRange(s) == ~s.nan /\ 0 <= s.n /\ s.n <= s.d

(***************************************************************************)
(* C12.  almostEqual gives a score between 0 and 1, both included, for     *)
(* every pair that is two non-records or two records with a common key.    *)
(***************************************************************************)
ScoreWithinUnitRange ==
    pc = "done" =>
        \A pr \in ElementPairs :
            Comparable(pr[1], pr[2]) =>
                ScoreInUnitRange(almostEqual(pr[1], pr[2]))

(***************************************************************************)
(* C13.  almostEqual of two records with no common key is a defined score: *)
(* 0 when one of them has a key, 1 when both are empty.                    *)
(***************************************************************************)
DisjointScoreDefined ==
    pc = "done" =>
        \A pr \in ElementPairs :
            KeyDisjoint(pr[1], pr[2]) =>
                almostEqual(pr[1], pr[2]) =
                    IF DOMAIN pr[1].o = {} /\ DOMAIN pr[2].o = {}
                    THEN Score(1, 1) ELSE Score(0, 1)

Operators == {"$set", "$unset", "$inc", "$push", "$pull", "$pullAll"}

RECURSIVE Defined(_)
\* v is a value of the data model with no undefined inside
Defined(v) ==
    CASE v.t = "undef" -> FALSE
      [] v.t = "arr" -> \A i \in DOMAIN v.a : Defined(v.a[i])
      [] v.t = "obj" -> \A k \in DOMAIN v.o : Defined(v.o[k])
      [] OTHER -> TRUE

\* v is an operand the operator op takes
OperandOf(op, v) ==
    /\ Defined(v)
    /\ op = "$unset" => v = Num(1)
    /\ op = "$inc" => isNumber(v)
    /\ op = "$pullAll" => isArray(v)

\* ch maps operators to maps from paths to operands of the operator
IsChangeSet(ch) ==
    /\ DOMAIN ch \subseteq Operators
    /\ \A op \in DOMAIN ch :
           \A path \in DOMAIN ch[op] : OperandOf(op, ch[op][path])

Applications(op, cls) ==
    SelectSeq(history, LAMBDA h : h.op = op /\ h.target = cls)

\* the index an application of Index stands for
IndexFor(app) ==
    [spec |-> app.spec,
     options |-> IF app.options = Undefined THEN Obj(EmptyMap)
                 ELSE app.options]

ValidateOnceGivesOneValidator ==
    pc = "decorators" =>
        LET apps == Applications("Validate", "Test")
        IN Len(apps) = 1 =>
               statics["Test"]["validators"]
                   = <<create(apps[1].forType, apps[1].validate)>>

\* the builder has been called with op alone, each time on the same path
OnlyCalls(op) ==
    /\ pc = "builder"
    /\ history # <<>>
    /\ \A i \in DOMAIN history :
           history[i].op = op /\ history[i].path = history[1].path

\* the values the builder has been called with, in call order
CallValues == [i \in DOMAIN history |-> history[i].value]

\* the append-list of the values vs
EachOf(vs) == Obj([k \in {"$each"} |-> Arr(vs)])

(***************************************************************************)
(* C17.  After n >= 1 calls push(path, v_1) .. push(path, v_n) on one path *)
(* of a new builder the push entry of the path is v_1 when n = 1 and the   *)
(* append-list [v_1, .., v_n] otherwise.                                   *)
(***************************************************************************)
PushCoalesced ==
    OnlyCalls("push") =>
        /\ "$push" \in DOMAIN changes
        /\ history[1].path \in DOMAIN changes["$push"]
        /\ changes["$push"][history[1].path]
               = IF Len(history) = 1 THEN history[1].value
                 ELSE EachOf(CallValues)

(***************************************************************************)
(* C18.  After n >= 1 calls pull(path, v_1) .. pull(path, v_n) on one path *)
(* of a new builder: for n = 1 the path holds v_1 under pull; for n >= 2   *)
(* it is absent from pull and holds [v_1, .., v_n] under pullAll.          *)
(***************************************************************************)
PullCoalesced ==
    OnlyCalls("pull") =>
        IF Len(history) = 1
        THEN /\ "$pull" \in DOMAIN changes
             /\ history[1].path \in DOMAIN changes["$pull"]
             /\ changes["$pull"][history[1].path] = history[1].value
        ELSE /\ history[1].path \notin PathsOf(changes, "$pull")
             /\ history[1].path \in PathsOf(changes, "$pullAll")
             /\ changes["$pullAll"][history[1].path] = Arr(CallValues)

\* every element of the array elements o is the element of m at its index
EqualPrefix(o, m) ==
    /\ Len(o) <= Len(m)
    /\ \A i \in DOMAIN o : o[i] = m[i]

\* the operand that pushes the values vs in order
PushOperand(vs) == IF Len(vs) = 1 THEN vs[1] ELSE EachOf(vs)

(***************************************************************************)
(* C19.  diff pushes to an array field only when modified is longer than   *)
(* original and every element of original equals the element of modified   *)
(* at its index; the pushes are then the trailing elements of modified in  *)
(* order and nothing else is emitted for the field; when an element at a   *)
(* shared index differs nothing is pushed.                                 *)
(***************************************************************************)
GrowPushesTrailing ==
    pc = "done" =>
        \A k \in ArrayFields :
            LET o == original.o[k].a
                m == modified.o[k].a
                pushed == <<"$push", k>> \in EntriesUnder(changes, k)
            IN /\ pushed => Len(m) > Len(o) /\ EqualPrefix(o, m)
               /\ Len(m) > Len(o) /\ EqualPrefix(o, m) =>
                      /\ EntriesUnder(changes, k) = {<<"$push", k>>}
                      /\ changes["$push"][k]
                             = PushOperand(SubSeq(m, Len(o) + 1, Len(m)))

\* x and y have a similarity that counts as a correspondence
Corresponds(x, y) == ScoreTruthy(almostEqual(x, y))

RECURSIVE Consumed(_, _, _, _)
\* the greedy walk over the array elements o and m from (i, j) matches every
\* element of m from j on
Consumed(o, m, i, j) ==
    IF j > Len(m) THEN TRUE
    ELSE IF i > Len(o) THEN FALSE
    ELSE IF Corresponds(o[i], m[j]) THEN Consumed(o, m, i + 1, j + 1)
    ELSE Consumed(o, m, i + 1, j)

\* the array fields that are shorter in modified than in original
ShrunkFields ==
    {k \in ArrayFields : Len(original.o[k].a) > Len(modified.o[k].a)}

(***************************************************************************)
(* C20.  When original is longer than modified at an array field, the      *)
(* change set has for the field either pull/pullAll entries at its path    *)
(* alone, exactly when the greedy walk matches every element of modified,  *)
(* or the single entry set(path, modified); never an entry below the path  *)
(* or a push.                                                              *)
(***************************************************************************)
ShrinkPullsOrRewrites ==
    pc = "done" =>
        \A k \in ShrunkFields :
            IF Consumed(original.o[k].a, modified.o[k].a, 1, 1)
            THEN /\ EntriesUnder(changes, k) # {}
                 /\ EntriesUnder(changes, k)
                        \subseteq {<<"$pull", k>>, <<"$pullAll", k>>}
            ELSE RewrittenWhole(k)

\* diff has met a shrunk array whose walk matches modified through an element
\* that is similar to, not equal to, the one of original, and pulled the rest
ShrunkBySimilarMatch ==
    /\ pc = "done"
    /\ \E k \in ShrunkFields :
           LET o == original.o[k].a
               m == modified.o[k].a
           IN /\ Consumed(o, m, 1, 1)
              /\ m # <<>>
              /\ \A i \in DOMAIN o : o[i] # m[1]
              /\ EntriesUnder(changes, k) = {<<"$pull", k>>}

\* the part of the change set ch at the path or below it
Restrict(ch, path) ==
    LET es == EntriesUnder(ch, path)
    IN [op \in {e[1] : e \in es} |->
           [p \in {e[2] : e \in {x \in es : x[1] = op}} |-> ch[op][p]]]

\* the similarity of the elements of field k at the zero-based index i
ScoreAt(k, i) == almostEqual(At(original.o[k].a, i), At(modified.o[k].a, i))

\* a score strictly between 0 and 1
ScoreIsPartial(s) == ~s.nan /\ 0 < s.n /\ s.n < s.d

(***************************************************************************)
(* C21.  In the positional strategy, with sets the indices of modified     *)
(* that score 0 and partials those that score strictly between 0 and 1:    *)
(* the field is rewritten by the single set(path, modified) if and only if *)
(* sets has more than half the length of modified; otherwise every index   *)
(* of sets gets exactly set(path.i, modified[i]), every index of partials  *)
(* gets the object diff of its elements at path.i, and an index that       *)
(* scores 1 gets nothing.                                                  *)
(***************************************************************************)
PositionalThreshold ==
    pc = "done" =>
        \A k \in ArrayFields :
            ReachesPositional(k) =>
                LET m == modified.o[k].a
                    o == original.o[k].a
                IN IF 2 * Cardinality(ZeroPositions(k)) > Len(m)
                   THEN RewrittenWhole(k)
                   ELSE /\ <<"$set", k>> \notin Entries(changes)
                        /\ \A i \in 0..(Len(m) - 1) :
                               LET at == resolve(k, ToString(i))
                               IN /\ ScoreIsZero(ScoreAt(k, i)) =>
                                        /\ EntriesUnder(changes, at)
                                               = {<<"$set", at>>}
                                        /\ changes["$set"][at] = At(m, i)
                                  /\ ScoreIsPartial(ScoreAt(k, i)) =>
                                        Restrict(changes, at)
                                            = Restrict(onObject(EmptyMap,
                                                  atomicNumbers, At(o, i),
                                                  At(m, i), at), at)
                                  /\ ScoreAt(k, i) = Score(1, 1) =>
                                        EntriesUnder(changes, at) = {}

\* diff has met an array of two with one index that scores 0, set at its
\* index, and one that scores between 0 and 1, diffed below its index
HalfSetHalfPartial ==
    /\ pc = "done"
    /\ \E k \in ArrayFields :
           /\ Len(original.o[k].a) = 2
           /\ Len(modified.o[k].a) = 2
           /\ \E i, j \in 0..1 :
                  /\ ScoreIsZero(ScoreAt(k, i))
                  /\ ScoreIsPartial(ScoreAt(k, j))
                  /\ <<"$set", resolve(k, ToString(i))>> \in Entries(changes)
                  /\ EntriesUnder(changes, resolve(k, ToString(j))) # {}

\* the paths of a field of either document that diff reaches through records
\* of both documents
ComparedPaths ==
    {q \in FieldPaths(original) \cup FieldPaths(modified) :
        \A n \in 0..(Len(q) - 1) :
            /\ isPlainObject(ValueAt(original, SubSeq(q, 1, n)))
            /\ isPlainObject(ValueAt(modified, SubSeq(q, 1, n)))}

\* set(path, v) is the only entry of the change set at the path or below it
OnlySet(path, v) ==
    /\ EntriesUnder(changes, path) = {<<"$set", path>>}
    /\ changes["$set"][path] = v

(***************************************************************************)
(* C22.  When the value of original at a path is null or missing: if that  *)
(* of modified is null or missing too, diff emits nothing for the path;    *)
(* otherwise exactly set(path, modified), with nothing below the path.     *)
(***************************************************************************)
NullishOriginalSetOrNothing ==
    pc = "done" =>
        \A q \in ComparedPaths :
            LET o == ValueAt(original, q)
                m == ValueAt(modified, q)
            IN isNullish(o) =>
                   IF isNullish(m)
                   THEN EntriesUnder(changes, JoinPath(q)) = {}
                   ELSE OnlySet(JoinPath(q), m)

\* the kind of node a value is
Kind(v) ==
    CASE v.t \in {"num", "str", "null"} -> "Scalar"
      [] v.t = "arr" -> "Sequence"
      [] v.t = "obj" -> "Record"
      [] v.t = "oid" -> "OpaqueRef"
      [] OTHER -> "Missing"

(***************************************************************************)
(* C23.  A field whose kind of node differs between original and modified  *)
(* is replaced as a whole: set(path, modified) is the only entry at the    *)
(* path or below it.                                                       *)
(***************************************************************************)
KindMismatchReplaced ==
    pc = "done" =>
        \A q \in ComparedPaths :
            LET o == ValueAt(original, q)
                m == ValueAt(modified, q)
            IN (/\ HasField(original, q) /\ HasField(modified, q)
                /\ Kind(o) # Kind(m))
               => OnlySet(JoinPath(q), m)

\* every leaf of doc is an ObjectID
OnlyObjectIDs(doc) ==
    \A q \in LeafPaths(doc) : q # <<>> /\ isObjectID(ValueAt(doc, q))

(***************************************************************************)
(* C24.  Two ObjectIDs at a path are compared by equals: set(path,         *)
(* modified) is emitted if and only if they are unequal, no entry is ever  *)
(* emitted below the path, and two distinct ObjectID objects that are      *)
(* equal produce no operator.                                              *)
(***************************************************************************)
ObjectIDsComparedByEquals ==
    pc = "done" =>
        /\ \A q \in ComparedPaths :
               LET o == ValueAt(original, q)
                   m == ValueAt(modified, q)
               IN (isObjectID(o) /\ isObjectID(m)) =>
                      IF o.id # m.id THEN OnlySet(JoinPath(q), m)
                      ELSE EntriesUnder(changes, JoinPath(q)) = {}
        /\ (/\ original = modified
            /\ OnlyObjectIDs(original))
           => changes = EmptyMap

(***************************************************************************)
(* C25.  diff returns an empty change set only if original and modified    *)
(* are deeply equal, so that a save of a changed document never takes the  *)
(* "no changes" way out.                                                   *)
(***************************************************************************)
EmptyOnlyIfEqual ==
    (pc = "done" /\ changes = EmptyMap) => original = modified

\* the path p is a strict dot-prefix of the path q
StrictPrefix(p, q) ==
    Len(q) > Len(p) /\ SubSeq(q, 1, Len(p) + 1) = p \o "."

(***************************************************************************)
(* C26.  In a change set diff returns no path under any operator is a      *)
(* strict dot-prefix of another path under any operator.                   *)
(***************************************************************************)
NoPathAboveAnother ==
    pc = "done" =>
        \A e1, e2 \in Entries(changes) : ~StrictPrefix(e1[2], e2[2])

\* diff has returned entries at an index of an array and below another index
EntriesAtAndBelowIndexes ==
    /\ pc = "done"
    /\ \E e1, e2 \in Entries(changes) :
           /\ e1[2] # e2[2]
           /\ Len(Segments(e1[2])) = 2
           /\ Len(Segments(e2[2])) = 3

\* the calls of save() without explicit changes that have sent an update
DiffUpdaters ==
    {c \in SaveCalls : ~saves[c].explicit /\ saves[c].updates > 0}

(***************************************************************************)
(* C27.  When two calls of save() without explicit changes overlap on an   *)
(* instance that is not new, the difference between its original and its   *)
(* modified document is sent to updateOne at most once.  (Calls that do    *)
(* not overlap never send it twice unless the first one failed.)           *)
(***************************************************************************)
DiffSentAtMostOnce ==
    (pc = "save" /\ \A c \in SaveCalls : saves[c].error = "")
        => Cardinality(DiffUpdaters) <= 1

(***************************************************************************)
(* C28.  When a call of save() resolves, by whatever path, the original    *)
(* document of the instance equals its modified document, and isNew is     *)
(* false exactly when a document was received back.                        *)
(***************************************************************************)
ResolvedSaveIsClean ==
    [][\A c \in SaveCalls :
           (saves[c].pc = "receive" /\ saves'[c].pc = "finishing") =>
               /\ instance'.original = instance'.modified
               /\ instance'.isNew = (saves[c].latest = Null)]_vars

\* a save() has resolved after its update found no document to change
ResolvedWithoutDocument ==
    /\ pc = "save"
    /\ \E c \in SaveCalls :
           /\ saves[c].pc = "resolved"
           /\ saves[c].updates = 1
           /\ saves[c].latest = Null
    /\ instance.isNew
    /\ instance.original = instance.modified
    /\ instance.original \notin OriginalDocs

(***************************************************************************)
(* C29.  A call of save() without explicit changes on a document that      *)
(* fails validation rejects with the validation error; it issues no        *)
(* insertOne, updateOne or findOne, does not call the saving hook, and     *)
(* leaves the instance as it was.                                          *)
(***************************************************************************)
ValidationFailureRejects ==
    [][\A c \in SaveCalls :
           /\ (/\ saves[c].pc = "prepare" /\ saves'[c].pc # "prepare"
               /\ ~saves[c].explicit
               /\ ~validate(instance.modified))
              => saves'[c].pc = "failing" /\ saves'[c].error = "validation"
           /\ (saves'[c].error = "validation" /\ saves'[c] # saves[c])
              => /\ instance' = instance
                 /\ stored' = stored
                 /\ saves'[c].pc \in {"failing", "rejected"}
                 /\ saves'[c].inserts = 0 /\ saves'[c].updates = 0
                 /\ saves'[c].finds = 0 /\ saves'[c].hooks = 0]_vars

\* a save() of a document that fails validation has been rejected
RejectedByValidation ==
    /\ pc = "save"
    /\ ~validate(instance.modified)
    /\ \E c \in SaveCalls :
           saves[c].pc = "rejected" /\ saves[c].error = "validation"

(***************************************************************************)
(* C30.  The callback given to save() is called exactly once for each      *)
(* call, whatever the outcome.                                             *)
(***************************************************************************)
CallbackExactlyOnce ==
    pc = "save" =>
        \A c \in SaveCalls :
            /\ saves[c].callbacks <= 1
            /\ saves[c].pc \in {"resolved", "rejected"} =>
                   saves[c].callbacks = 1

====
